---------------------------- MODULE Spec2Model ----------------------------
(***************************************************************************)
(* Model of gitian-verify.py: verification of the gitian signatures of a   *)
(* release.  validate_build evaluates the signer subdirectories of one     *)
(* build, main runs it over the five builds of a release and aggregates.   *)
(*                                                                         *)
(* Two specifications share the definitions below:                         *)
(*   Spec      one call of validate_build, one loop iteration per step;    *)
(*   MainSpec  main's loop over the builds, one validate_build per step.   *)
(***************************************************************************)
EXTENDS Integers, Sequences, FiniteSets, TLC

None == "None"

\* ------------------------------------------------------------------ bounds
\* signatures a detached signature blob may decode to: 0..MaxSigs
MaxSigs == 2
\* build directories that exist under the signatures directory (MainSpec)
MaxBuildDirs == 3

\* names of the entries found in a build directory
SignerNames == {"alice", "Bob"}
\* key fingerprints as GPG reports them
Fprs == {"AA", "BB"}
\* out_manifest values of well-formed assert files
Manifests == {"M1", "M2"}
\* content of an assert file: a manifest, a file yaml cannot load as a
\* mapping, or a mapping without an out_manifest entry
Contents == Manifests \cup {"unparseable", "no_out_manifest"}

\* ----------------------------------------------------------- enumerations
\* class Status
OK == "OK"
NO_FILE == "NO_FILE"
UNKNOWN_KEY == "UNKNOWN_KEY"
MISSING_KEY == "MISSING_KEY"
EXPIRED_KEY == "EXPIRED_KEY"
INVALID_SIG == "INVALID_SIG"
MISMATCH == "MISMATCH"
Status == {OK, NO_FILE, UNKNOWN_KEY, MISSING_KEY, EXPIRED_KEY, INVALID_SIG, MISMATCH}

\* class Missing(IntFlag)
GPG == 1
KEYSTXT == 2

\* VerificationInterface error values
ERR_MISSING_KEY == "ERR_MISSING_KEY"
ERR_BAD == "ERR_BAD"
ERR_EXPIRED_KEY == "ERR_EXPIRED_KEY"

\* bitwise or of two Missing values (two bits)
BitOr(a, b) ==
    (IF a % 2 = 1 \/ b % 2 = 1 THEN 1 ELSE 0)
    + 2 * (IF (a \div 2) % 2 = 1 \/ (b \div 2) % 2 = 1 THEN 1 ELSE 0)

\* str.lower on the names of the model
Lower(s) ==
    CASE s = "Bob" -> "bob"
      [] s = "Alice" -> "alice"
      [] s = "Alice A" -> "alice a"
      [] OTHER -> s

\* str.upper on the fingerprints of the model
Upper(s) ==
    CASE s = "aa" -> "AA"
      [] s = "bb" -> "BB"
      [] OTHER -> s

LowerNames == {Lower(n) : n \in SignerNames}

EmptyMap == <<>>

\* d.get(k, default)
Get(d, k, default) == IF k \in DOMAIN d THEN d[k] ELSE default

\* ------------------------------------------------------------------ inputs
\* What the GPG backend reports for a signature blob and the signed data:
\* the number of signatures, whether ctx.verify raised BadSignatures, the
\* summary bits of the signature, its fingerprint and the fingerprint of
\* the key ctx.get_key finds (None when the key is not in the keyring).
\* The fields after nsigs are read only when nsigs = 1.
GpgOutcomes ==
    {g \in [nsigs: 0..MaxSigs, bad: BOOLEAN, key_missing: BOOLEAN,
            key_expired: BOOLEAN, fpr: Fprs \cup {None}, key_fpr: Fprs \cup {None}] :
        /\ g.nsigs = 1 => /\ g.fpr # None
                          /\ (g.key_fpr = None) <=> g.key_missing
        /\ g.nsigs # 1 => /\ ~g.bad /\ ~g.key_missing /\ ~g.key_expired
                          /\ g.fpr = None /\ g.key_fpr = None}

NoGpg == [nsigs |-> 0, bad |-> FALSE, key_missing |-> FALSE,
          key_expired |-> FALSE, fpr |-> None, key_fpr |-> None]

\* An entry of a build directory: whether it is a directory, which of the
\* two files it holds, the content of the assert file (None without the
\* file) and the backend's outcome for the pair of files (NoGpg unless both
\* files exist: the backend is not called otherwise).
Entries ==
    {e \in [isdir: BOOLEAN, has_result: BOOLEAN, has_sig: BOOLEAN,
            content: Contents \cup {None}, gpg: GpgOutcomes] :
        /\ e.has_result => e.isdir
        /\ e.has_sig => e.isdir
        /\ (e.content = None) <=> ~e.has_result
        /\ ~(e.has_result /\ e.has_sig) => e.gpg = NoGpg}

\* the keys list load_keys_txt returns: (fingerprint, lowercase name) pairs
KeyLists == SUBSET (Fprs \X LowerNames)

\* ----------------------------------------------------------------- state
VARIABLES
    keys,           \* main: keys, the loaded keys list
    compare_to,     \* args.compare_to: the pinned signer, or None
    verbose,        \* args.verbose
    release_isdir,  \* os.path.isdir(release_path): the build directory exists
    pc,             \* where validate_build stands
    listing,        \* the entries os.listdir has yielded so far, in order
    dirents,        \* the entries of the build directory read so far
    reference,      \* validate_build: reference
    results,        \* validate_build: results
    missing_keys,   \* validate_build: missing_keys
    mismatches,     \* validate_build: mismatches
    error,          \* the exception that ended the run, or None
    mk_mid,         \* missing_keys as the last iteration had it after line 208
    main_pc,        \* where main stands
    bi,             \* main: the index in builds of the next build
    build_dirs,     \* the builds whose directory was found to exist
    all_results,    \* main: all_results
    all_missing_keys, \* main: all_missing_keys
    all_mismatches, \* main: all_mismatches
    missing_log,    \* the missing_keys each validate_build call returned
    build_log,      \* the build directory each returned call read
    all_signers,    \* main: all_signers
    matrix,         \* the statuses main tabulates, by signer and build
    exit_code,      \* the exit status of the process, None while it runs
    fn_pc,          \* the function called on its own, "idle" before the call
    fn_arg,         \* its argument
    fn_ret,         \* the value it returned
    fn_error        \* the exception it raised, or None

args == <<keys, compare_to, verbose>>

callvars == <<release_isdir, pc, listing, dirents, reference, results,
              missing_keys, mismatches, error, mk_mid>>

mainvars == <<main_pc, bi, build_dirs, all_results, all_missing_keys,
              all_mismatches, missing_log, build_log, all_signers, matrix,
              exit_code>>

fnvars == <<fn_pc, fn_arg, fn_ret, fn_error>>

vars == <<args, callvars, mainvars, fnvars>>


Range(f) == {f[i] : i \in DOMAIN f}

\* --------------------------------------------------- VerificationInterface
\* assert(len(r.signatures) == 1)
one_signature(g) == g.nsigs = 1

\* verify_error with the test of KEY_EXPIRED before that of KEY_MISSING
verify_error_expired_first(g) ==
    IF g.key_expired THEN ERR_EXPIRED_KEY
    ELSE IF g.key_missing THEN ERR_MISSING_KEY
    ELSE IF g.bad THEN ERR_BAD
    ELSE None

\* the error code verify_detached reports, by the summary bits
verify_error(g) ==
    IF g.key_missing THEN ERR_MISSING_KEY
    ELSE IF g.key_expired THEN ERR_EXPIRED_KEY
    ELSE IF g.bad THEN ERR_BAD
    ELSE None

\* VerificationInterface.verify_detached, for a blob holding one signature
verify_detached(g) ==
    [verify_ok     |-> ~g.bad,
     p_fingerprint |-> IF g.key_missing THEN None ELSE g.key_fpr,
     s_fingerprint |-> g.fpr,
     error         |-> verify_error(g)]

\* ---------------------------------------------------------- validate_build
\* the state of one validate_build call: its locals and the exception that
\* ended it (None while it runs)
Locals(ref) ==
    [reference |-> ref, results |-> EmptyMap, missing_keys |-> EmptyMap,
     mismatches |-> EmptyMap, error |-> None]

Raise(loc, exc) == [loc EXCEPT !.error = exc]

\* fingerprint = vres.p_fingerprint or vres.s_fingerprint
best_fingerprint(vres) ==
    IF vres.p_fingerprint # None THEN vres.p_fingerprint ELSE vres.s_fingerprint

\* not_in_keys with the name dropped from the lookup: a fingerprint bound
\* to any name counts as bound
not_in_keys_any_name(vres, signer_name, ks) ==
    /\ \A n \in LowerNames : <<vres.p_fingerprint, n>> \notin ks
    /\ \A n \in LowerNames : <<vres.s_fingerprint, n>> \notin ks

\* not_in_keys looking up the primary fingerprint only
not_in_keys_primary_only(vres, signer_name, ks) ==
    <<vres.p_fingerprint, Lower(signer_name)>> \notin ks

\* the condition of line 206: neither pair is in keys
not_in_keys(vres, signer_name, ks) ==
    /\ <<vres.p_fingerprint, Lower(signer_name)>> \notin ks
    /\ <<vres.s_fingerprint, Lower(signer_name)>> \notin ks

\* or_flag with = in place of |=
or_flag_assign(mk, k, flag) == (k :> flag) @@ mk

\* missing_keys[k] |= flag, on a defaultdict of Missing(0)
or_flag(mk, k, flag) == (k :> BitOr(Get(mk, k, 0), flag)) @@ mk

\* results[signer_name] = status
set_status(loc, signer_name, status) ==
    [loc EXCEPT !.results = (signer_name :> status) @@ @]

\* failed_status without the EXPIRED_KEY branch
failed_status_no_expired(vres) ==
    IF vres.error = ERR_MISSING_KEY THEN MISSING_KEY ELSE INVALID_SIG

\* failed_status storing the error code of the verifier in place of a Status
failed_status_error_code(vres) == vres.error

\* lines 210-219: the status of a signature that did not verify
failed_status(vres) ==
    IF vres.error = ERR_MISSING_KEY THEN MISSING_KEY
    ELSE IF vres.error = ERR_EXPIRED_KEY THEN EXPIRED_KEY
    ELSE INVALID_SIG

\* sig_failed without lines 212-214: a missing key is not recorded
sig_failed_no_gpg(loc, signer_name, vres) ==
    set_status(loc, signer_name, failed_status(vres))

\* lines 210-219: verification failed
sig_failed(loc, signer_name, vres) ==
    LET k == <<signer_name, best_fingerprint(vres)>>
        l1 == IF vres.error = ERR_MISSING_KEY
              THEN [loc EXCEPT !.missing_keys = or_flag(@, k, GPG)]
              ELSE loc
    IN  set_status(l1, signer_name, failed_status(vres))

\* compare with the pair of a mismatch stored in the other order
compare_pair_swapped(loc, signer_name, out_manifest) ==
    LET l1 == IF loc.reference # None /\ out_manifest # loc.reference
              THEN [set_status(loc, signer_name, MISMATCH) EXCEPT
                      !.mismatches = (signer_name :> <<loc.reference, out_manifest>>) @@ @]
              ELSE set_status(loc, signer_name, OK)
    IN  IF l1.reference = None THEN [l1 EXCEPT !.reference = out_manifest] ELSE l1

\* compare without the test of line 236: every compared manifest becomes
\* the reference
compare_last_wins(loc, signer_name, out_manifest) ==
    LET l1 == IF loc.reference # None /\ out_manifest # loc.reference
              THEN [set_status(loc, signer_name, MISMATCH) EXCEPT
                      !.mismatches = (signer_name :> <<out_manifest, loc.reference>>) @@ @]
              ELSE set_status(loc, signer_name, OK)
    IN  [l1 EXCEPT !.reference = out_manifest]

\* compare without lines 236-237: no reference is ever established
compare_never_sets(loc, signer_name, out_manifest) ==
    IF loc.reference # None /\ out_manifest # loc.reference
    THEN [set_status(loc, signer_name, MISMATCH) EXCEPT
            !.mismatches = (signer_name :> <<out_manifest, loc.reference>>) @@ @]
    ELSE set_status(loc, signer_name, OK)

\* compare without the test of line 229: every compared manifest is OK
compare_always_ok(loc, signer_name, out_manifest) ==
    LET l1 == set_status(loc, signer_name, OK)
    IN  IF l1.reference = None THEN [l1 EXCEPT !.reference = out_manifest] ELSE l1

\* lines 229-237: compare the parsed manifest with the reference, and make
\* it the reference when there is none
compare(loc, signer_name, out_manifest) ==
    LET l1 == IF loc.reference # None /\ out_manifest # loc.reference
              THEN [set_status(loc, signer_name, MISMATCH) EXCEPT
                      !.mismatches = (signer_name :> <<out_manifest, loc.reference>>) @@ @]
              ELSE set_status(loc, signer_name, OK)
    IN  IF l1.reference = None THEN [l1 EXCEPT !.reference = out_manifest] ELSE l1

\* lines 227-237: a valid signature of a signer bound in keys
sig_trusted(loc, signer_name, content) ==
    IF content = "unparseable" THEN Raise(loc, "YAMLError")
    ELSE IF content = "no_out_manifest"
         THEN \* result['out_manifest'] is first evaluated at line 229 when a
              \* reference exists, and at line 237 (after line 233) otherwise
              IF loc.reference # None THEN Raise(loc, "KeyError")
              ELSE Raise(set_status(loc, signer_name, OK), "KeyError")
    ELSE compare(loc, signer_name, content)

\* loop_body with "and" for the "or" of line 189: NO_FILE only when both
\* files are absent
loop_body_both_absent(loc, signer_name, e, ks) ==
    IF ~e.isdir THEN loc
    ELSE IF ~e.has_result /\ ~e.has_sig THEN set_status(loc, signer_name, NO_FILE)
    ELSE IF ~one_signature(e.gpg) THEN Raise(loc, "AssertionError")
    ELSE LET vres == verify_detached(e.gpg)
             nik  == not_in_keys(vres, signer_name, ks)
             l1   == IF nik
                     THEN [loc EXCEPT !.missing_keys =
                             or_flag(@, <<signer_name, best_fingerprint(vres)>>, KEYSTXT)]
                     ELSE loc
         IN  IF ~vres.verify_ok THEN sig_failed(l1, signer_name, vres)
             ELSE IF nik THEN set_status(l1, signer_name, MISSING_KEY)
             ELSE sig_trusted(l1, signer_name, e.content)

\* lines 179-208: missing_keys as the iteration has it after the lookup in
\* keys, before the result of the verification is looked at
after_lookup(loc, signer_name, e, ks) ==
    IF /\ e.isdir /\ e.has_result /\ e.has_sig /\ one_signature(e.gpg)
       /\ not_in_keys(verify_detached(e.gpg), signer_name, ks)
    THEN or_flag(loc.missing_keys,
                 <<signer_name, best_fingerprint(verify_detached(e.gpg))>>, KEYSTXT)
    ELSE loc.missing_keys

\* lines 179-237: one iteration of the loop over os.listdir(release_path)
loop_body(loc, signer_name, e, ks) ==
    IF ~e.isdir THEN loc
    ELSE IF ~e.has_result \/ ~e.has_sig THEN set_status(loc, signer_name, NO_FILE)
    ELSE IF ~one_signature(e.gpg) THEN Raise(loc, "AssertionError")
    ELSE LET vres == verify_detached(e.gpg)
             nik  == not_in_keys(vres, signer_name, ks)
             l1   == IF nik
                     THEN [loc EXCEPT !.missing_keys =
                             or_flag(@, <<signer_name, best_fingerprint(vres)>>, KEYSTXT)]
                     ELSE loc
         IN  IF ~vres.verify_ok THEN sig_failed(l1, signer_name, vres)
             ELSE IF nik THEN set_status(l1, signer_name, MISSING_KEY)
             ELSE sig_trusted(l1, signer_name, e.content)

\* load_reference without lines 169-174: compare_to is ignored
load_reference_ignored(cmp, ents) == Locals(None)

\* lines 168-178: load the pinned signer's manifest, initialise the locals.
\* ents maps the names of the build directory to their entries.
load_reference(cmp, ents) ==
    IF cmp = None THEN Locals(None)
    ELSE IF cmp \notin DOMAIN ents THEN Raise(Locals(None), "FileNotFoundError")
    ELSE IF ~ents[cmp].isdir THEN Raise(Locals(None), "NotADirectoryError")
    ELSE IF ~ents[cmp].has_result THEN Raise(Locals(None), "FileNotFoundError")
    ELSE IF ents[cmp].content = "unparseable" THEN Raise(Locals(None), "YAMLError")
    ELSE IF ents[cmp].content = "no_out_manifest" THEN Raise(Locals(None), "KeyError")
    ELSE Locals(ents[cmp].content)

\* lines 239-240: print(results[signer_name]) when verbose; signer_name is
\* the last name listed, and unbound when nothing was listed
after_loop(loc, names, verb) ==
    IF ~verb THEN loc
    ELSE IF names = <<>> THEN Raise(loc, "UnboundLocalError")
    ELSE IF names[Len(names)] \notin DOMAIN loc.results THEN Raise(loc, "KeyError")
    ELSE loc

\* the loop of lines 179-237 over the names in listing order; an exception
\* ends it
RECURSIVE run_loop(_, _, _, _)
run_loop(loc, names, ents, ks) ==
    IF names = <<>> \/ loc.error # None THEN loc
    ELSE run_loop(loop_body(loc, Head(names), ents[Head(names)], ks),
                  Tail(names), ents, ks)

\* validate_build on a build directory dir = [exists, names, ents]: exists
\* is os.path.isdir(release_path), names the order of os.listdir, ents the
\* entries by name
validate_build(cmp, dir, verb, ks) ==
    IF ~dir.exists THEN Locals(None)
    ELSE LET l0 == load_reference(cmp, dir.ents)
             l1 == run_loop(l0, dir.names, dir.ents, ks)
         IN  IF l1.error # None THEN l1 ELSE after_loop(l1, dir.names, verb)

\* ------------------------------------------------ Spec: one validate_build
\* the locals of the running call, as a record
Loc ==
    [reference |-> reference, results |-> results, missing_keys |-> missing_keys,
     mismatches |-> mismatches, error |-> error]

\* store the record l in the locals; an exception ends the call, otherwise
\* control goes to nextpc
Store(l, nextpc) ==
    /\ reference' = l.reference
    /\ results' = l.results
    /\ missing_keys' = l.missing_keys
    /\ mismatches' = l.mismatches
    /\ error' = l.error
    /\ pc' = IF l.error # None THEN "raised" ELSE nextpc

\* An assert file is parsed when it is the pinned signer's or when its
\* signature verifies and its signer is bound in keys.  The content of a
\* file that is never parsed is not an input of the run: it is left M1.
Parsed(name, e) ==
    \/ name = compare_to
    \/ /\ e.has_result /\ e.has_sig /\ one_signature(e.gpg)
       /\ verify_detached(e.gpg).verify_ok
       /\ ~not_in_keys(verify_detached(e.gpg), name, keys)

\* main is not running: Spec is one call of validate_build on its own
MainIdle ==
    /\ main_pc = "idle"
    /\ bi = 1
    /\ build_dirs = {}
    /\ all_results = EmptyMap
    /\ all_missing_keys = EmptyMap
    /\ all_mismatches = EmptyMap
    /\ missing_log = <<>>
    /\ build_log = <<>>
    /\ all_signers = <<>>
    /\ matrix = EmptyMap
    /\ exit_code = None

\* no function is called on its own
FnIdle ==
    /\ fn_pc = "idle"
    /\ fn_arg = None
    /\ fn_ret = None
    /\ fn_error = None

Init ==
    /\ keys \in KeyLists
    /\ compare_to \in SignerNames \cup {None}
    /\ verbose \in BOOLEAN
    /\ release_isdir \in BOOLEAN
    /\ pc = "start"
    /\ listing = <<>>
    /\ dirents = EmptyMap
    /\ reference = None
    /\ results = EmptyMap
    /\ missing_keys = EmptyMap
    /\ mismatches = EmptyMap
    /\ error = None
    /\ mk_mid = EmptyMap
    /\ MainIdle
    /\ FnIdle

\* EnterNoDir with the pinned manifest loaded before the test of line 165
EnterNoDir_after_load ==
    /\ pc = "start"
    /\ ~release_isdir
    /\ Store(load_reference(compare_to, EmptyMap), "returned")
    /\ UNCHANGED <<args, release_isdir, listing, dirents, mk_mid, mainvars, fnvars>>

\* lines 165-166: release_path is no directory
EnterNoDir ==
    /\ pc = "start"
    /\ ~release_isdir
    /\ pc' = "returned"
    /\ UNCHANGED <<args, release_isdir, listing, dirents, reference,
                   results, missing_keys, mismatches, error, mk_mid, mainvars,
                   fnvars>>

\* lines 168-178 with compare_to None
EnterUnpinned ==
    /\ pc = "start"
    /\ release_isdir
    /\ compare_to = None
    /\ Store(load_reference(compare_to, dirents), "loop")
    /\ UNCHANGED <<args, release_isdir, listing, dirents, mk_mid, mainvars, fnvars>>

\* lines 168-178 with a pinned signer: the pinned signer's entry of the
\* directory (if it has one) is read here
EnterPinned ==
    /\ pc = "start"
    /\ release_isdir
    /\ compare_to # None
    /\ \E ents \in {EmptyMap} \cup {compare_to :> e : e \in Entries} :
          /\ dirents' = ents
          /\ Store(load_reference(compare_to, ents), "loop")
    /\ UNCHANGED <<args, release_isdir, listing, mk_mid, mainvars, fnvars>>

\* lines 179-237: os.listdir yields the next name and the body runs on it
Iterate ==
    /\ pc = "loop"
    /\ \E name \in SignerNames \ Range(listing) :
       \E e \in (IF name \in DOMAIN dirents THEN {dirents[name]} ELSE Entries) :
          /\ Parsed(name, e) \/ e.content \in {None, "M1"}
          /\ listing' = Append(listing, name)
          /\ dirents' = (name :> e) @@ dirents
          /\ Store(loop_body(Loc, name, e, keys), "loop")
          /\ mk_mid' = after_lookup(Loc, name, e, keys)
    /\ UNCHANGED <<args, release_isdir, mainvars, fnvars>>

\* lines 239-242: os.listdir is exhausted
Return ==
    /\ pc = "loop"
    /\ DOMAIN dirents \subseteq Range(listing)
    /\ Store(after_loop(Loc, listing, verbose), "returned")
    /\ UNCHANGED <<args, release_isdir, listing, dirents, mk_mid, mainvars, fnvars>>

Next == EnterNoDir \/ EnterUnpinned \/ EnterPinned \/ Iterate \/ Return

Spec == Init /\ [][Next]_vars

\* ----------------------------------------------- claims on validate_build
\* the listed signer subdirectories that hold both files and whose blob
\* holds one signature: those verify_detached returned a result for
Verified == {n \in Range(listing) :
                /\ dirents[n].isdir /\ dirents[n].has_result /\ dirents[n].has_sig
                /\ dirents[n].gpg.nsigs = 1}

Vres(n) == verify_detached(dirents[n].gpg)

\* the signer directory name n is bound in keys to its primary or to its
\* signing fingerprint
Bound(n) ==
    \/ <<Vres(n).p_fingerprint, Lower(n)>> \in keys
    \/ <<Vres(n).s_fingerprint, Lower(n)>> \in keys

Fingerprint(n) ==
    IF Vres(n).p_fingerprint = None THEN Vres(n).s_fingerprint ELSE Vres(n).p_fingerprint

HasFlag(v, flag) == (v \div flag) % 2 = 1

\* the signers with a valid signature, bound in keys, with a well-formed
\* assert file
Trusted == {n \in Verified : Vres(n).verify_ok /\ Bound(n)
                              /\ dirents[n].content \in Manifests}

C2_CompareWithReference ==
    /\ \A n \in Trusted :
          /\ n \in DOMAIN results
          /\ results[n] = IF dirents[n].content = reference THEN OK ELSE MISMATCH
    /\ DOMAIN mismatches = {n \in DOMAIN results : results[n] = MISMATCH}
    /\ \A n \in DOMAIN mismatches :
          mismatches[n] = <<dirents[n].content, reference>>

\* C2 witness: a returned run with an OK and a MISMATCH signer
C2_Witness ==
    /\ pc = "returned"
    /\ \E n, m \in Trusted :
          /\ results[n] = OK /\ results[m] = MISMATCH
          /\ mismatches[m] = <<dirents[m].content, dirents[n].content>>

\* C3: when verification fails the status follows the verifier's error
\* alone, bound or not: MISSING_KEY (with the GPG flag set for the signer
\* and fingerprint), EXPIRED_KEY, and INVALID_SIG otherwise; the KEYSTXT
\* flag of an unbound signer stays in the missing-key map.
C3_FailedVerificationByError ==
    \A n \in Verified :
        ~Vres(n).verify_ok =>
            /\ n \in DOMAIN results
            /\ Vres(n).error = ERR_MISSING_KEY =>
                  /\ results[n] = MISSING_KEY
                  /\ <<n, Fingerprint(n)>> \in DOMAIN missing_keys
                  /\ HasFlag(missing_keys[<<n, Fingerprint(n)>>], GPG)
            /\ Vres(n).error = ERR_EXPIRED_KEY => results[n] = EXPIRED_KEY
            /\ Vres(n).error \notin {ERR_MISSING_KEY, ERR_EXPIRED_KEY} =>
                  results[n] = INVALID_SIG
            /\ ~Bound(n) =>
                  /\ <<n, Fingerprint(n)>> \in DOMAIN missing_keys
                  /\ HasFlag(missing_keys[<<n, Fingerprint(n)>>], KEYSTXT)

\* C3 witness: a returned run with an unbound signer whose key is expired
\* and a bound signer whose signature is bad
C3_Witness ==
    /\ pc = "returned"
    /\ \E n, m \in Verified :
          /\ ~Vres(n).verify_ok /\ ~Bound(n) /\ Vres(n).error = ERR_EXPIRED_KEY
          /\ results[n] = EXPIRED_KEY
          /\ missing_keys[<<n, Fingerprint(n)>>] = KEYSTXT
          /\ ~Vres(m).verify_ok /\ Bound(m) /\ results[m] = INVALID_SIG

\* the manifest of the first signer in iteration order with a valid
\* signature, bound in keys, or None when there is none
RECURSIVE FirstTrusted(_)
FirstTrusted(names) ==
    IF names = <<>> THEN None
    ELSE IF Head(names) \in Trusted THEN dirents[Head(names)].content
    ELSE FirstTrusted(Tail(names))

\* C4: the reference is established at most once per run, never replaced
\* once set; with no pinned signer it is the manifest of the first signer
\* in iteration order whose signature verifies and who is bound in keys,
\* and it is unset while there is no such signer.
C4_ReferenceSetOnce ==
    /\ [](compare_to = None => reference = FirstTrusted(listing))
    /\ [][reference # None => reference' = reference]_vars

\* C4 witness: no pinned signer and two trusted signers with different
\* manifests: the reference is the manifest of the one listed first
C4_Witness ==
    /\ compare_to = None
    /\ Len(listing) = 2
    /\ listing[1] \in Trusted /\ listing[2] \in Trusted
    /\ dirents[listing[1]].content # dirents[listing[2]].content
    /\ reference = dirents[listing[1]].content

\* C5: with a pinned signer the reference of every comparison is the
\* pinned signer's manifest, loaded before the loop; no other signer's
\* manifest becomes the reference.
C5_PinnedReference ==
    (compare_to # None /\ release_isdir /\ pc \in {"loop", "returned"}) =>
        /\ compare_to \in DOMAIN dirents
        /\ dirents[compare_to].content \in Manifests
        /\ reference = dirents[compare_to].content
        /\ \A n \in Trusted :
              results[n] = IF dirents[n].content = dirents[compare_to].content
                           THEN OK ELSE MISMATCH
        /\ \A n \in DOMAIN mismatches :
              mismatches[n][2] = dirents[compare_to].content

\* C5 witness: another signer with a different manifest was compared
\* before the pinned signer was listed
C5_Witness ==
    /\ compare_to # None /\ pc = "loop"
    /\ compare_to \notin Range(listing)
    /\ \E n \in Trusted : /\ dirents[n].content # dirents[compare_to].content
                          /\ results[n] = MISMATCH
    /\ reference = dirents[compare_to].content

\* the orders os.listdir may yield the names of a directory in
Orders(names) ==
    {o \in [1..Cardinality(names) -> names] :
        \A i, j \in DOMAIN o : i # j => o[i] # o[j]}

\* lines 168-237 on the build directory as read, listed in the order o:
\* the locals when the loop has ended
LoopOver(o) == run_loop(load_reference(compare_to, dirents), o, dirents, keys)

\* C6: with a pinned signer, every iteration order of the signer
\* directories of a build gives every signer the same status (the loop
\* over any other order of the entries of a returned run ends without an
\* exception, with the same status map).
C6_PinnedOrderIndependent ==
    (compare_to # None /\ release_isdir /\ pc = "returned") =>
        \A o \in Orders(Range(listing)) :
            LET r == LoopOver(o)
            IN  r.error = None /\ r.results = results

\* C6 witness: a returned pinned run over two signers with different
\* manifests, both compared
C6_Witness ==
    /\ compare_to # None /\ pc = "returned"
    /\ Len(listing) = 2
    /\ listing[1] \in Trusted /\ listing[2] \in Trusted
    /\ dirents[listing[1]].content # dirents[listing[2]].content
    /\ listing[1] # compare_to

\* C7: with no pinned signer and two signers with valid signatures, both
\* bound in keys, with different manifests: the one listed first is OK and
\* the other MISMATCH, and the reverse order gives the reverse.
C7_UnpinnedFirstWins ==
    (/\ compare_to = None /\ release_isdir /\ pc \in {"loop", "returned"}
     /\ Len(listing) = 2
     /\ listing[1] \in Trusted /\ listing[2] \in Trusted
     /\ dirents[listing[1]].content # dirents[listing[2]].content) =>
        LET A == listing[1]
            B == listing[2]
            rev == LoopOver(<<B, A>>)
        IN  /\ results[A] = OK /\ results[B] = MISMATCH
            /\ rev.results[B] = OK /\ rev.results[A] = MISMATCH

\* C7 witness: a returned unpinned run over two such signers
C7_Witness ==
    /\ compare_to = None /\ pc = "returned"
    /\ Len(listing) = 2
    /\ listing[1] \in Trusted /\ listing[2] \in Trusted
    /\ dirents[listing[1]].content # dirents[listing[2]].content
    /\ results[listing[1]] = OK /\ results[listing[2]] = MISMATCH

\* C9: validate_build raises if and only if the signature blob of some
\* evaluated signer holds a number of signatures other than one; a missing
\* or malformed assert file of the pinned signer or of a compared signer
\* does not make it fail.
C9_OnlyMultipleSignaturesAreFatal ==
    pc \in {"raised", "returned"} =>
        ((pc = "raised") <=>
            \E n \in Range(listing) :
                /\ dirents[n].isdir /\ dirents[n].has_result /\ dirents[n].has_sig
                /\ dirents[n].gpg.nsigs # 1)

\* C16: validate_build on a build directory that does not exist returns
\* three empty maps and raises nothing, with and without a pinned signer.
C16_AbsentBuildReturnsEmpty ==
    (~release_isdir /\ pc # "start") =>
        /\ pc = "returned"
        /\ error = None
        /\ results = EmptyMap
        /\ missing_keys = EmptyMap
        /\ mismatches = EmptyMap

\* C16 witness: the call returned for an absent directory with a pinned
\* signer
C16_Witness ==
    /\ ~release_isdir
    /\ pc = "returned"
    /\ compare_to # None
    /\ main_pc = "idle"

\* the entry of n is a signer subdirectory lacking the assert file or the
\* signature file
LacksFile(ents, n) ==
    ents[n].isdir /\ (~ents[n].has_result \/ ~ents[n].has_sig)

\* C17: a signer subdirectory lacking the assert file or the signature
\* file gets NO_FILE and nothing else happens for it: the iteration raises
\* nothing (the verifier, which fails on a blob without signature, is not
\* called), records no missing-key entry and leaves the reference and the
\* mismatches as they were.
C17_NoFileBeforeAnythingElse ==
    /\ [](\A n \in Range(listing) :
            LacksFile(dirents, n) =>
                /\ n \in DOMAIN results /\ results[n] = NO_FILE
                /\ \A k \in DOMAIN missing_keys : k[1] # n
                /\ n \notin DOMAIN mismatches)
    /\ [][\A n \in SignerNames :
            (listing' = Append(listing, n) /\ LacksFile(dirents', n)) =>
                /\ results' = (n :> NO_FILE) @@ results
                /\ missing_keys' = missing_keys
                /\ mismatches' = mismatches
                /\ reference' = reference
                /\ error' = None]_vars

\* C17 witness: after a reference was set and a missing key recorded, a
\* subdirectory with the assert file and no signature file got NO_FILE
C17_Witness ==
    /\ pc = "returned"
    /\ reference # None
    /\ missing_keys # EmptyMap
    /\ \E n \in Range(listing) :
          /\ dirents[n].isdir /\ dirents[n].has_result /\ ~dirents[n].has_sig
          /\ results[n] = NO_FILE
          /\ listing[Len(listing)] = n

C23_KeystxtFlagIffUnbound ==
    /\ \A n \in Verified :
          HasFlag(Get(missing_keys, <<n, Fingerprint(n)>>, 0), KEYSTXT)
              <=> ~Bound(n)
    /\ \A k \in DOMAIN missing_keys :
          HasFlag(missing_keys[k], KEYSTXT) =>
              /\ k[1] \in Verified
              /\ k[2] = Fingerprint(k[1])
              /\ ~Bound(k[1])

\* C23 witness: the call returned; one signer, bound by its signing
\* fingerprint alone, has no flag and another, unbound, has KEYSTXT
C23_Witness ==
    /\ pc = "returned"
    /\ \E n, m \in Verified :
          /\ Vres(n).p_fingerprint # None
          /\ Vres(n).p_fingerprint # Vres(n).s_fingerprint
          /\ <<Vres(n).s_fingerprint, Lower(n)>> \in keys
          /\ <<Vres(n).p_fingerprint, Lower(n)>> \notin keys
          /\ <<n, Fingerprint(n)>> \notin DOMAIN missing_keys
          /\ ~Bound(m)
          /\ HasFlag(missing_keys[<<m, Fingerprint(m)>>], KEYSTXT)

\* the entries of the status map and of the mismatch map, once written,
\* keep their value, and keys is not modified
StatusesWrittenOnce ==
    /\ \A n \in DOMAIN results : n \in DOMAIN results' /\ results'[n] = results[n]
    /\ \A n \in DOMAIN mismatches :
          n \in DOMAIN mismatches' /\ mismatches'[n] = mismatches[n]
    /\ keys' = keys

\* the entries of the missing-key map an earlier iteration wrote keep
\* their value
MissingKeptAfterIteration ==
    \A k \in DOMAIN missing_keys :
        k \in DOMAIN missing_keys' /\ missing_keys'[k] = missing_keys[k]

\* C24 as stated: within one run no entry of the status map, of the
\* missing-key map or of the mismatch map is assigned or updated again
\* after it was first written (the entry of the missing-key map written
\* at line 207 has at the end of the iteration the value written there),
\* and keys is never modified.
C24_EveryEntryWriteOnce ==
    [][/\ StatusesWrittenOnce
       /\ MissingKeptAfterIteration
       /\ \A k \in DOMAIN mk_mid' \ DOMAIN missing_keys :
             missing_keys'[k] = mk_mid'[k]]_vars

\* C24 amended: status and mismatch entries are written once and keys is
\* never modified; an entry of the missing-key map is written only in the
\* iteration of its signer, where line 207 sets KEYSTXT and line 213 may
\* then or GPG into the same entry, and keeps its value afterwards.
C24_WriteOnceButMissingFlags ==
    [][/\ StatusesWrittenOnce
       /\ MissingKeptAfterIteration
       /\ Cardinality(DOMAIN missing_keys' \ DOMAIN missing_keys) <= 1
       /\ \A k \in DOMAIN missing_keys' \ DOMAIN missing_keys :
             IF k \in DOMAIN mk_mid'
             THEN /\ mk_mid'[k] = KEYSTXT
                  /\ missing_keys'[k] \in {KEYSTXT, KEYSTXT + GPG}
             ELSE missing_keys'[k] = GPG]_vars

\* C24 witness: the call returned with two statuses; the entry of the last
\* signer was written at line 207 and updated at line 213
C24_Witness ==
    /\ pc = "returned"
    /\ Cardinality(DOMAIN results) = 2
    /\ \E k \in DOMAIN mk_mid :
          mk_mid[k] = KEYSTXT /\ missing_keys[k] = KEYSTXT + GPG

\* no exception ended the call and some signer has a status that comes
\* from a comparison
SomeCompared ==
    error = None /\ \E n \in DOMAIN results : results[n] \in {OK, MISMATCH}

\* the statuses of a submission that was not accepted
Rejected == {NO_FILE, MISSING_KEY, EXPIRED_KEY, INVALID_SIG}

\* the reference is the manifest of a listed signer whose signature
\* verified, whose key is bound to it in keys and whose status is OK
ReferenceFromTrusted ==
    \E m \in Trusted : dirents[m].content = reference /\ results[m] = OK

\* C25: in every build, pinned or not, a signer has OK or
\* MISMATCH only by comparison with the manifest of a submission whose
\* signature verifies and whose key is bound to its signer: the pinned
\* signer's submission is such a submission, and its own status is never
\* NO_FILE, MISSING_KEY, EXPIRED_KEY or INVALID_SIG.
C25_ReferenceAlwaysTrusted ==
    SomeCompared =>
        IF compare_to = None THEN ReferenceFromTrusted
        ELSE /\ dirents[compare_to].has_sig
             /\ dirents[compare_to].gpg.nsigs = 1
             /\ Vres(compare_to).verify_ok
             /\ Bound(compare_to)
             /\ compare_to \in DOMAIN results =>
                   results[compare_to] \notin Rejected

\* C26: when validate_build returns, the signers with status OK have
\* pairwise equal manifests, each equal to the reference of the build,
\* and the manifest of every signer with status MISMATCH differs from the
\* reference and from the manifest of every OK signer.
C26_OkManifestsEqualReference ==
    pc = "returned" =>
        \A n \in DOMAIN results :
            /\ results[n] = OK =>
                  /\ dirents[n].content \in Manifests
                  /\ dirents[n].content = reference
                  /\ \A m \in DOMAIN results :
                        results[m] = OK => dirents[m].content = dirents[n].content
            /\ results[n] = MISMATCH =>
                  /\ dirents[n].content \in Manifests
                  /\ dirents[n].content # reference
                  /\ \A m \in DOMAIN results :
                        results[m] = OK => dirents[m].content # dirents[n].content

\* C26 witness: the call returned with an OK signer and a MISMATCH signer
C26_Witness ==
    /\ pc = "returned"
    /\ \E n, m \in DOMAIN results : results[n] = OK /\ results[m] = MISMATCH

BuildDir == [exists |-> release_isdir, names |-> listing, ents |-> dirents]

\* the call has ended, by return or by an exception, and every entry of the
\* directory that was read is among the names listed
CallEnded ==
    /\ pc \in {"returned", "raised"}
    /\ DOMAIN dirents \subseteq Range(listing)

\* C28: verbosity changes only what is printed: on every build directory
\* (an empty one and one whose last listed entry is no directory included)
\* on which validate_build returns with verbose off, the call with the
\* given verbosity returns too, with the same status map, missing-key map
\* and mismatch map.
C28_VerboseOnlyPrints ==
    CallEnded =>
        LET quiet == validate_build(compare_to, BuildDir, FALSE, keys)
        IN  quiet.error = None =>
                /\ pc = "returned"
                /\ results = quiet.results
                /\ missing_keys = quiet.missing_keys
                /\ mismatches = quiet.mismatches

\* validate_build runs on one thread from line 165 to its end: a step that
\* can be taken is taken
FairSpec == Spec /\ WF_vars(Next)

\* the entries of the directory that are subdirectories
Subdirs == {n \in Range(listing) : dirents[n].isdir}

\* on return the status map holds one status for each subdirectory and
\* nothing for any other entry
StatusPerSubdir ==
    (pc = "returned" /\ release_isdir) =>
        /\ DOMAIN results = Subdirs
        /\ \A n \in Subdirs : results[n] \in Status

\* C29: validate_build on an existing build directory with finitely many
\* entries eventually returns, and on return every entry that is a
\* subdirectory has exactly one status in the status map while the entries
\* that are no directories have none.
C29_ReturnsWithStatusPerSubdir ==
    /\ release_isdir => <>(pc = "returned")
    /\ []StatusPerSubdir

\* ------------------------------------------------------------------ main
\* get_builds_for: the build names, in the order of BUILDS
BuildNames == <<"linux", "osx-unsigned", "win-unsigned", "osx-signed", "win-signed">>

\* merge_missing with = in place of |=
merge_missing_overwrite(all, mk) ==
    [k \in DOMAIN all \cup DOMAIN mk |->
        IF k \in DOMAIN mk THEN mk[k] ELSE all[k]]

\* lines 274-275: all_missing_keys[k] |= v for every item of missing_keys
merge_missing(all, mk) ==
    [k \in DOMAIN all \cup DOMAIN mk |->
        IF k \in DOMAIN mk THEN BitOr(Get(all, k, 0), mk[k]) ELSE all[k]]

\* the place of a name in the order of the names themselves, as sorted()
\* without key= gives it: upper case letters before lower case ones
CodepointRank(n) ==
    CASE n = "Alice" -> 1
      [] n = "Bob" -> 2
      [] n = "alice" -> 3
      [] OTHER -> 4

\* the place of a name in the order of str.casefold keys
CasefoldRank(n) ==
    CASE Lower(n) = "alice" -> 1
      [] Lower(n) = "bob" -> 2
      [] OTHER -> 3

\* sorted(list(names), key=str.casefold)
RECURSIVE sorted_casefold(_)
sorted_casefold(names) ==
    IF names = {} THEN <<>>
    ELSE LET first == CHOOSE n \in names :
                        \A m \in names : CasefoldRank(n) <= CasefoldRank(m)
         IN  <<first>> \o sorted_casefold(names \ {first})

\* lines 279-282: the signers with a status in some build
signers_of(ar) == UNION {DOMAIN ar[b] : b \in DOMAIN ar}

\* lines 302-310: the row of a signer: its status per build, None on KeyError
row_of(ar, name) ==
    [i \in DOMAIN BuildNames |->
        IF BuildNames[i] \in DOMAIN ar /\ name \in DOMAIN ar[BuildNames[i]]
        THEN ar[BuildNames[i]][name] ELSE None]

\* --------------------------------------------------------- MainSpec inputs
Submission(content, g) ==
    [isdir |-> TRUE, has_result |-> TRUE, has_sig |-> TRUE,
     content |-> content, gpg |-> g]

OneSig(bad, key_missing, key_expired, fpr, key_fpr) ==
    [nsigs |-> 1, bad |-> bad, key_missing |-> key_missing,
     key_expired |-> key_expired, fpr |-> fpr, key_fpr |-> key_fpr]

\* The entries MainSpec draws the build directories from: a file, a
\* signer directory without files, a blob of two signatures, valid
\* signatures by two keys over two manifests, and signatures failing for
\* each of the three errors.
MainEntries ==
    { [isdir |-> FALSE, has_result |-> FALSE, has_sig |-> FALSE,
       content |-> None, gpg |-> NoGpg],
      [isdir |-> TRUE, has_result |-> FALSE, has_sig |-> FALSE,
       content |-> None, gpg |-> NoGpg],
      Submission("M1", [NoGpg EXCEPT !.nsigs = 2]),
      Submission("M1", OneSig(FALSE, FALSE, FALSE, "AA", "AA")),
      Submission("M2", OneSig(FALSE, FALSE, FALSE, "AA", "AA")),
      Submission("M1", OneSig(FALSE, FALSE, FALSE, "BB", "BB")),
      Submission("M1", OneSig(TRUE, TRUE, FALSE, "AA", None)),
      Submission("M1", OneSig(TRUE, FALSE, TRUE, "AA", "AA")),
      Submission("M1", OneSig(TRUE, FALSE, FALSE, "AA", "AA")) }

\* the entries a name takes in MainSpec.  alice, bound to key AA in every
\* keys list and the signer pinned, signs with AA when she signs; Bob,
\* bound in one keys list only, is always a directory and signs with
\* either key.
MainEntriesOf(n) ==
    IF n = "alice"
    THEN {e \in MainEntries : e.gpg.fpr # "BB" /\ ~e.gpg.key_missing}
    ELSE {e \in MainEntries : e.isdir /\ e.gpg.nsigs <= 1 /\ ~e.gpg.key_expired}

\* the build directories of MainSpec: absent, empty, or holding one entry
MainDirs ==
    {[exists |-> FALSE, names |-> <<>>, ents |-> EmptyMap],
     [exists |-> TRUE, names |-> <<>>, ents |-> EmptyMap]}
    \cup UNION {{[exists |-> TRUE, names |-> <<n>>, ents |-> (n :> e)] :
                    e \in MainEntriesOf(n)} : n \in SignerNames}

\* the keys lists of MainSpec: alice is bound to key AA, Bob may be
MainKeyLists == {{<<"AA", "alice">>}, {<<"AA", "alice">>, <<"AA", "bob">>}}

\* ------------------------------------------------------- MainSpec: main
MainInit ==
    /\ keys \in MainKeyLists
    /\ compare_to \in {None, "alice"}
    /\ verbose \in BOOLEAN
    /\ release_isdir = FALSE
    /\ pc = "start"
    /\ listing = <<>>
    /\ dirents = EmptyMap
    /\ reference = None
    /\ results = EmptyMap
    /\ missing_keys = EmptyMap
    /\ mismatches = EmptyMap
    /\ error = None
    /\ mk_mid = EmptyMap
    /\ main_pc = "loop"
    /\ bi = 1
    /\ build_dirs = {}
    /\ all_results = EmptyMap
    /\ all_missing_keys = EmptyMap
    /\ all_mismatches = EmptyMap
    /\ missing_log = <<>>
    /\ build_log = <<>>
    /\ all_signers = <<>>
    /\ matrix = EmptyMap
    /\ exit_code = None
    /\ FnIdle

\* lines 261-276: one iteration of the loop over builds.  The exception of
\* a failing validate_build is caught nowhere and ends main.
ValidateNextBuild ==
    /\ main_pc = "loop"
    /\ bi <= Len(BuildNames)
    /\ \E dir \in MainDirs :
          /\ dir.exists => Cardinality(build_dirs) < MaxBuildDirs
          /\ LET r == validate_build(compare_to, dir, verbose, keys)
                 build_name == BuildNames[bi]
             IN  /\ release_isdir' = dir.exists
                 /\ listing' = dir.names
                 /\ dirents' = dir.ents
                 /\ build_dirs' = IF dir.exists THEN build_dirs \cup {build_name}
                                  ELSE build_dirs
                 /\ reference' = r.reference
                 /\ results' = r.results
                 /\ missing_keys' = r.missing_keys
                 /\ mismatches' = r.mismatches
                 /\ error' = r.error
                 /\ mk_mid' = mk_mid
                 /\ IF r.error # None
                    THEN /\ pc' = "raised"
                         /\ main_pc' = "raised"
                         /\ UNCHANGED <<bi, all_results, all_missing_keys,
                                        all_mismatches, missing_log, build_log>>
                    ELSE /\ pc' = "returned"
                         /\ main_pc' = "loop"
                         /\ bi' = bi + 1
                         /\ all_results' = (build_name :> r.results) @@ all_results
                         /\ all_missing_keys' =
                                merge_missing(all_missing_keys, r.missing_keys)
                         /\ all_mismatches' =
                                (build_name :> r.mismatches) @@ all_mismatches
                         /\ missing_log' = Append(missing_log, r.missing_keys)
                         /\ build_log' = Append(build_log, dir)
    /\ UNCHANGED <<args, all_signers, matrix, exit_code, fnvars>>

\* lines 278-344: tabulate; exit(1) when no signer has a status
Tabulate ==
    /\ main_pc = "loop"
    /\ bi > Len(BuildNames)
    /\ all_signers' = sorted_casefold(signers_of(all_results))
    /\ IF signers_of(all_results) = {}
       THEN /\ exit_code' = 1
            /\ main_pc' = "exited"
            /\ matrix' = matrix
       ELSE /\ exit_code' = 0
            /\ main_pc' = "done"
            /\ matrix' = [n \in signers_of(all_results) |-> row_of(all_results, n)]
    /\ UNCHANGED <<args, callvars, bi, build_dirs, all_results, all_missing_keys,
                   all_mismatches, missing_log, build_log, fnvars>>

MainNext == ValidateNextBuild \/ Tabulate

MainSpec == MainInit /\ [][MainNext]_vars

\* ------------------------------------------------------- claims on main
\* C8: no NotSubmitted, NoFile, key, signature or mismatch failure of a
\* signer or build aborts the run: also when the pinned signer has not
\* submitted or lacks its assert file in a build, every build is still
\* evaluated and main does not end on the exception of opening that file.
C8_FailuresNeverAbort ==
    ~(main_pc = "raised" /\ error \in {"FileNotFoundError", "NotADirectoryError"})

\* C10: the aggregated missing-key map holds, for every (signer name,
\* fingerprint) key, the bitwise or of the flags of that exact key in each
\* build; one signer's entries under different fingerprints stay apart.
C10_MissingKeysMergedByOr ==
    /\ DOMAIN all_missing_keys =
          UNION {DOMAIN missing_log[i] : i \in DOMAIN missing_log}
    /\ \A k \in DOMAIN all_missing_keys :
          /\ all_missing_keys[k] \in 0..(GPG + KEYSTXT)
          /\ \A flag \in {GPG, KEYSTXT} :
                HasFlag(all_missing_keys[k], flag) <=>
                    \E i \in DOMAIN missing_log :
                        /\ k \in DOMAIN missing_log[i]
                        /\ HasFlag(missing_log[i][k], flag)

\* C10 witness: all builds processed; one key flagged both ways in an
\* earlier build and KEYSTXT alone in a later one keeps both flags, and
\* the same signer has a separate entry under another fingerprint
C10_Witness ==
    /\ main_pc = "done"
    /\ \E i, j \in DOMAIN missing_log : \E k \in DOMAIN all_missing_keys :
          /\ i < j
          /\ k \in DOMAIN missing_log[i] /\ k \in DOMAIN missing_log[j]
          /\ missing_log[i][k] = GPG + KEYSTXT
          /\ missing_log[j][k] = KEYSTXT
          /\ all_missing_keys[k] = GPG + KEYSTXT
    /\ \E k1, k2 \in DOMAIN all_missing_keys :
          /\ k1[1] = k2[1] /\ k1[2] # k2[2]
          /\ all_missing_keys[k1] # all_missing_keys[k2]

\* ------------------------------------------- claims on main: the inputs
\* the names build i of the log holds a signer subdirectory for
SubdirsOf(i) ==
    {n \in DOMAIN build_log[i].ents :
        build_log[i].exists /\ build_log[i].ents[n].isdir}

\* signer n submitted both files in build i of the log, with one signature
SubmittedIn(n, i) ==
    /\ n \in SubdirsOf(i)
    /\ build_log[i].ents[n].has_result /\ build_log[i].ents[n].has_sig
    /\ build_log[i].ents[n].gpg.nsigs = 1

VresIn(n, i) == verify_detached(build_log[i].ents[n].gpg)

\* the signature of n in build i is by a key missing from the keyring
KeyMissingIn(n, i) == SubmittedIn(n, i) /\ build_log[i].ents[n].gpg.key_missing

\* the signature of n in build i is by a key keys does not bind to n
UnboundIn(n, i) == SubmittedIn(n, i) /\ not_in_keys(VresIn(n, i), n, keys)

\* C11: when a signer's submission in one build is signed by a key missing
\* from the keyring and the signer's submission in another build by a key
\* that keys does not bind to the signer, the aggregated missing-key
\* entries of that signer hold both GPG and KEYSTXT; they hold them in one
\* entry, equal to GPG | KEYSTXT, when the two builds report one
\* fingerprint.
C11_BothFlagsAggregated ==
    \A n \in SignerNames : \A a, b \in DOMAIN build_log :
        (a # b /\ KeyMissingIn(n, a) /\ UnboundIn(n, b)) =>
            /\ \A flag \in {GPG, KEYSTXT} :
                  \E k \in DOMAIN all_missing_keys :
                      k[1] = n /\ HasFlag(all_missing_keys[k], flag)
            /\ best_fingerprint(VresIn(n, a)) = best_fingerprint(VresIn(n, b)) =>
                  /\ <<n, best_fingerprint(VresIn(n, a))>> \in DOMAIN all_missing_keys
                  /\ all_missing_keys[<<n, best_fingerprint(VresIn(n, a))>>]
                        = GPG + KEYSTXT

\* C11 witness: the run has ended; in one build the key of a signer was
\* missing from the keyring, in a later one the signer's valid signature
\* was by a key keys does not bind to the signer, and the aggregate holds
\* both flags for that signer
C11_Witness ==
    /\ main_pc = "done"
    /\ \E n \in SignerNames : \E a, b \in DOMAIN build_log :
          /\ a < b
          /\ KeyMissingIn(n, a)
          /\ UnboundIn(n, b) /\ VresIn(n, b).verify_ok
          /\ \E k \in DOMAIN all_missing_keys :
                k[1] = n /\ all_missing_keys[k] = GPG + KEYSTXT

\* C12: the matrix has one row per signer name that is a subdirectory of
\* some build; the rows are in case-insensitive order of the names; the
\* columns are linux, osx-unsigned, win-unsigned, osx-signed, win-signed;
\* a cell holds the status validate_build returned for the signer in that
\* build, and None exactly when the build holds no subdirectory of that
\* name.
C12_MatrixRowsAndCells ==
    main_pc = "done" =>
        /\ DOMAIN matrix = UNION {SubdirsOf(i) : i \in DOMAIN build_log}
        /\ Range(all_signers) = DOMAIN matrix
        /\ Len(all_signers) = Cardinality(DOMAIN matrix)
        /\ \A i, j \in DOMAIN all_signers :
              (i < j) => ~(Lower(all_signers[i]) = "bob"
                            /\ Lower(all_signers[j]) = "alice")
        /\ Len(build_log) = 5
        /\ \A n \in DOMAIN matrix :
              /\ DOMAIN matrix[n] = 1..5
              /\ \A i \in 1..5 :
                    LET b == <<"linux", "osx-unsigned", "win-unsigned",
                               "osx-signed", "win-signed">>[i]
                        r == validate_build(compare_to, build_log[i], verbose, keys)
                    IN  /\ (matrix[n][i] = None) <=> (n \notin SubdirsOf(i))
                        /\ n \in SubdirsOf(i) =>
                              /\ matrix[n][i] = r.results[n]
                              /\ matrix[n][i] = all_results[b][n]

\* C12 witness: a matrix of two rows, for "alice" and "Bob", whose names
\* sort differently with and without case, each with a status and a None
C12_Witness ==
    /\ main_pc = "done"
    /\ all_signers = <<"alice", "Bob">>
    /\ \E i, j \in 1..5 :
          /\ matrix["alice"][i] \in Status /\ matrix["alice"][j] = None
          /\ matrix["Bob"][j] \in Status /\ matrix["Bob"][i] = None

\* C13: in every run that produces a matrix, every cell is one of the
\* seven Status values or None (not submitted).
C13_CellsAreStatuses ==
    main_pc = "done" =>
        \A n \in DOMAIN matrix : \A i \in DOMAIN matrix[n] :
            matrix[n][i] \in Status \cup {None}

\* C13 witness: a matrix holding a failed verification's status, an OK and
\* a None
C13_Witness ==
    /\ main_pc = "done"
    /\ \E n \in DOMAIN matrix : \E i, j, k \in DOMAIN matrix[n] :
          /\ matrix[n][i] \in {MISSING_KEY, EXPIRED_KEY, INVALID_SIG}
          /\ matrix[n][j] = OK
          /\ matrix[n][k] = None


\* a signer subdirectory was found in a build read so far
SubdirFound ==
    \/ \E i \in DOMAIN build_log : SubdirsOf(i) # {}
    \/ release_isdir /\ \E n \in DOMAIN dirents : dirents[n].isdir

\* C20: main applies no pass/fail policy: once a signer subdirectory is
\* found in some build, main runs to completion and exits with zero,
\* whatever the statuses: it does not exit with 1 and it is not ended by an
\* exception (a blob that breaks the precondition of exactly one signature
\* aside).
C20_NoPolicyZeroExit ==
    SubdirFound =>
        /\ main_pc # "exited"
        /\ main_pc = "raised" => error = "AssertionError"
        /\ main_pc = "done" => exit_code = 0

\* ================================================== functions on strings
\* A string is modelled as the sequence of its tokens: the pieces none of
\* the operations of the code cuts through.  "0.21.0rc5" is
\* <<"0", ".", "21", ".", "0", "rc5">>.

\* str.split(sep): the pieces between the occurrences of the token sep
RECURSIVE split(_, _)
split(s, sep) ==
    IF \A i \in DOMAIN s : s[i] # sep THEN <<s>>
    ELSE LET i == CHOOSE j \in DOMAIN s :
                    s[j] = sep /\ \A k \in 1..(j - 1) : s[k] # sep
         IN  <<SubSeq(s, 1, i - 1)>> \o split(SubSeq(s, i + 1, Len(s)), sep)

\* str.replace(old, new) for a one-token old: every occurrence is replaced
RECURSIVE replace(_, _, _)
replace(s, old, new) ==
    IF s = <<>> THEN <<>>
    ELSE (IF Head(s) = old THEN new ELSE <<Head(s)>>) \o replace(Tail(s), old, new)

\* the decimal numerals of the model and their values
IntOf ==
    ("0" :> 0) @@ ("1" :> 1) @@ ("17" :> 17) @@ ("18" :> 18) @@ ("19" :> 19)
    @@ ("20" :> 20) @@ ("21" :> 21) @@ ("22" :> 22)

\* int(s) succeeds on a numeral alone; "0rc5" raises ValueError
is_int(s) == Len(s) = 1 /\ s[1] \in DOMAIN IntOf

\* the order of Python on pairs of integers
tuple_less(a, b) == a[1] < b[1] \/ (a[1] = b[1] /\ a[2] < b[2])

\* lines 111-117: BUILDS
BUILDS ==
    << <<"linux",        <<"bitcoin-core", "-linux-", "<major>">> >>,
       <<"osx-unsigned", <<"bitcoin-core", "-osx-", "<major>">> >>,
       <<"win-unsigned", <<"bitcoin-core", "-win-", "<major>">> >>,
       <<"osx-signed",   <<"bitcoin", "-dmg-signer">> >>,
       <<"win-signed",   <<"bitcoin", "-win-signer">> >> >>

\* package_name without lines 127-129: no renaming before 0.19
package_name_no_rename(build, major, major_n) ==
    replace(build[2], "<major>", major)

\* lines 126-129: the package name of a build
package_name(build, major, major_n) ==
    LET p == replace(build[2], "<major>", major)
    IN  IF tuple_less(major_n, <<0, 19>>)
        THEN replace(p, "bitcoin-core", <<"bitcoin">>)
        ELSE p

\* lines 106-130: get_builds_for(version); the exception raised, or the
\* list of BuildInfo
get_builds_for(version) ==
    LET vsplit == split(version, ".")
    IN  IF Len(vsplit) < 2
        THEN [error |-> "IndexError", result |-> <<>>]
        ELSE IF ~is_int(vsplit[1]) \/ ~is_int(vsplit[2])
        THEN [error |-> "ValueError", result |-> <<>>]
        ELSE LET major == vsplit[1] \o <<".">> \o vsplit[2]
                 major_n == <<IntOf[vsplit[1][1]], IntOf[vsplit[2][1]]>>
             IN  [error |-> None,
                  result |->
                    [i \in DOMAIN BUILDS |->
                        [build_name |-> BUILDS[i][1],
                         dir_name |-> version \o <<"-", BUILDS[i][1]>>,
                         package_name |-> package_name(BUILDS[i], major, major_n)]]]

\* the release versions of the model: major.minor and major.minor.patch,
\* with and without an rc suffix, and a major alone
Releases ==
    LET Majors == {"0", "1", "22"}
        Minors == {"0", "17", "18", "19", "20", "21"}
        Patches == {"0", "1"}
        Plain == {<<a>> : a \in Majors}
                 \cup {<<a, ".", b>> : a \in Majors, b \in Minors}
                 \cup {<<t[1], ".", t[2], ".", t[3]>> :
                          t \in Majors \X Minors \X Patches}
    IN  Plain \cup {v \o <<"rc1">> : v \in Plain}

\* ----------------------------------------------------------- keys.txt
\* A line of keys.txt is the sequence of its tokens: words, single blanks
\* and the characters "(", ")" and ",".  An alias with an inner blank
\* ("Alice A") is one word.
ExampleFpr == "ABCDEF1234567890ABCDEF1234567890ABCDEF12"

\* the words the character class [0-9A-F]+ matches as a whole
IsUpperHex(w) == w \in {"AA", "BB", ExampleFpr}

\* the result of re.match when the line does not match
NoMatch == [matched |-> FALSE, group1 |-> None, group2 |-> <<>>]

\* re.match('([0-9A-F]+) .* \((.*)\)', line): whether it matched, and the
\* groups 1 and 2.
\* Group 1 is the run of upper case hex digits the line starts with, which
\* a blank must follow; both .* are greedy, so the parenthesis opened is
\* the last " (" that a ")" follows and the one closed is the last ")".
re_match(line) ==
    IF Len(line) < 2 \/ ~IsUpperHex(line[1]) \/ line[2] # " " THEN NoMatch
    ELSE LET Opens == {i \in 3..(Len(line) - 2) :
                          /\ line[i] = " " /\ line[i + 1] = "("
                          /\ \E j \in (i + 2)..Len(line) : line[j] = ")"}
         IN  IF Opens = {} THEN NoMatch
             ELSE LET i == CHOOSE x \in Opens : \A y \in Opens : y <= x
                      j == CHOOSE x \in (i + 2)..Len(line) :
                              /\ line[x] = ")"
                              /\ \A y \in (x + 1)..Len(line) : line[y] # ")"
                  IN  [matched |-> TRUE, group1 |-> line[1],
                       group2 |-> SubSeq(line, i + 2, j - 1)]

\* str.strip(): the blanks at both ends are dropped
RECURSIVE strip(_)
strip(s) ==
    IF s = <<>> THEN s
    ELSE IF Head(s) = " " THEN strip(Tail(s))
    ELSE IF s[Len(s)] = " " THEN strip(SubSeq(s, 1, Len(s) - 1))
    ELSE s

\* the string of a stripped alias: the empty string or its one word
word_of(s) == IF s = <<>> THEN "" ELSE IF Len(s) = 1 THEN s[1] ELSE s

\* lines 139-142: the pairs one line adds to keys
keys_of_line(line) ==
    LET m == re_match(line)
    IN  IF ~m.matched THEN <<>>
        ELSE LET names == split(m.group2, ",")
             IN  [i \in DOMAIN names |->
                    <<Upper(m.group1), Lower(word_of(strip(names[i])))>>]

\* lines 132-143: load_keys_txt on the lines of the file
RECURSIVE load_keys_txt(_)
load_keys_txt(lines) ==
    IF lines = <<>> THEN <<>>
    ELSE keys_of_line(Head(lines)) \o load_keys_txt(Tail(lines))

\* "name1, name2, ...": the aliases of a line, separated by ", "
RECURSIVE CommaList(_)
CommaList(names) ==
    IF Len(names) <= 1 THEN names
    ELSE <<Head(names), ",", " ">> \o CommaList(Tail(names))

\* the line "<fingerprint> <free text> (<name1>, <name2>, ...)"
KeyLine(fpr, text, names) ==
    <<fpr, " ">> \o text \o <<" ", "(">> \o CommaList(names) \o <<")">>

\* the fingerprints, free texts and alias lists of the lines of the model:
\* fingerprints in upper and in lower case, a free text with a
\* parenthesis of its own
FileFprs == {"AA", "aa", ExampleFpr}
FreeTexts == {<<"comment">>, <<"Jo", " ", "(", "J", ")">>}
AliasLists == {<<"alice">>, <<"Bob">>, <<"Alice A", "alice">>, <<"alice", "bob">>}

\* the lines of the model: the key lines, a comment line, a line with no
\* parenthesis and an empty line
KeyLines ==
    {KeyLine(f, t, a) : f \in FileFprs, t \in FreeTexts, a \in AliasLists}
    \cup {<<"#", " ", "comment">>, <<"AA", " ", "comment">>, <<>>}

\* the keys.txt files of the model: one or two lines
KeyFiles == {<<l>> : l \in KeyLines} \cup (KeyLines \X KeyLines)

\* ------------------------------------------ FnSpec: one function called
FnInit ==
    /\ keys = {}
    /\ compare_to = None
    /\ verbose = FALSE
    /\ release_isdir = FALSE
    /\ pc = "start"
    /\ listing = <<>>
    /\ dirents = EmptyMap
    /\ reference = None
    /\ results = EmptyMap
    /\ missing_keys = EmptyMap
    /\ mismatches = EmptyMap
    /\ error = None
    /\ mk_mid = EmptyMap
    /\ MainIdle
    /\ FnIdle

\* line 252: builds = get_builds_for(args.release)
CallGetBuildsFor ==
    /\ fn_pc = "idle"
    /\ \E version \in Releases :
          /\ fn_arg' = version
          /\ fn_ret' = get_builds_for(version).result
          /\ fn_error' = get_builds_for(version).error
    /\ fn_pc' = "get_builds_for"
    /\ UNCHANGED <<args, callvars, mainvars>>

\* line 253: keys = load_keys_txt(args.keys)
CallLoadKeysTxt ==
    /\ fn_pc = "idle"
    /\ \E lines \in KeyFiles :
          /\ fn_arg' = lines
          /\ fn_ret' = load_keys_txt(lines)
          /\ keys' = Range(load_keys_txt(lines))
    /\ fn_error' = None
    /\ fn_pc' = "load_keys_txt"
    /\ UNCHANGED <<compare_to, verbose, callvars, mainvars>>

\* line 197: vres = verifier.verify_detached(sig_data, result_data)
CallVerifyDetached ==
    /\ fn_pc = "idle"
    /\ \E g \in GpgOutcomes :
          /\ fn_arg' = g
          /\ IF one_signature(g)
             THEN fn_ret' = verify_detached(g) /\ fn_error' = None
             ELSE fn_ret' = None /\ fn_error' = "AssertionError"
    /\ fn_pc' = "verify_detached"
    /\ UNCHANGED <<args, callvars, mainvars>>

FnNext == CallGetBuildsFor \/ CallLoadKeysTxt \/ CallVerifyDetached

FnSpec == FnInit /\ [][FnNext]_vars

\* ------------------------------------------- claims on get_builds_for
\* the release of the call is 0.19 or later
AtLeast019 == IntOf[fn_arg[1]] > 0 \/ IntOf[fn_arg[3]] >= 19

BuildsReturned == fn_pc = "get_builds_for" /\ fn_error = None

\* C14 as stated: for every release and every one of the five builds the
\* package name starts with bitcoin-core- from 0.19 on and with bitcoin-
\* (not bitcoin-core-) before.
C14_PrefixForEveryVariant ==
    BuildsReturned =>
        \A i \in DOMAIN fn_ret :
            fn_ret[i].package_name[1] =
                (IF AtLeast019 THEN "bitcoin-core" ELSE "bitcoin")

\* C14 amended: the package names of linux, osx-unsigned and win-unsigned
\* are bitcoin-core-<build>-<major.minor> from 0.19 on and
\* bitcoin-<build>-<major.minor> before; those of osx-signed and
\* win-signed are bitcoin-dmg-signer and bitcoin-win-signer for every
\* release.  0.18.0 gives bitcoin-linux-0.18 and 0.21.0 gives
\* bitcoin-core-linux-0.21.
C14_PrefixForUnsignedVariants ==
    BuildsReturned =>
        /\ [i \in DOMAIN fn_ret |-> fn_ret[i].build_name] =
              <<"linux", "osx-unsigned", "win-unsigned", "osx-signed", "win-signed">>
        /\ \A i \in 1..3 :
              fn_ret[i].package_name =
                  <<IF AtLeast019 THEN "bitcoin-core" ELSE "bitcoin",
                    <<"-linux-", "-osx-", "-win-">>[i],
                    fn_arg[1], ".", fn_arg[3]>>
        /\ fn_ret[4].package_name = <<"bitcoin", "-dmg-signer">>
        /\ fn_ret[5].package_name = <<"bitcoin", "-win-signer">>
        /\ fn_arg = <<"0", ".", "18", ".", "0">> =>
              fn_ret[1].package_name = <<"bitcoin", "-linux-", "0", ".", "18">>
        /\ fn_arg = <<"0", ".", "21", ".", "0">> =>
              fn_ret[1].package_name = <<"bitcoin-core", "-linux-", "0", ".", "21">>

\* C14 witness: get_builds_for returned for 0.18.0, with the linux package
\* renamed and the signer package as in BUILDS
C14_Witness ==
    /\ BuildsReturned
    /\ fn_arg = <<"0", ".", "18", ".", "0">>
    /\ fn_ret[1].package_name[1] = "bitcoin"
    /\ fn_ret[4].package_name = <<"bitcoin", "-dmg-signer">>

\* the release of the call has the form major.minor or major.minor.patch,
\* with or without an rc suffix on its last component
MajorMinorForm == Len(split(fn_arg, ".")) \in {2, 3}

\* C30: for every release of the form major.minor or major.minor.patch,
\* with or without an rc suffix on its last component, get_builds_for
\* returns without raising the five builds linux, osx-unsigned,
\* win-unsigned, osx-signed, win-signed in this order, each with the
\* directory name <version>-<build_name>.
C30_TotalOnReleaseStrings ==
    (fn_pc = "get_builds_for" /\ MajorMinorForm) =>
        /\ fn_error = None
        /\ [i \in DOMAIN fn_ret |-> fn_ret[i].build_name] =
              <<"linux", "osx-unsigned", "win-unsigned", "osx-signed", "win-signed">>
        /\ \A i \in DOMAIN fn_ret :
              fn_ret[i].dir_name = fn_arg \o <<"-", fn_ret[i].build_name>>

\* -------------------------------------------- claims on load_keys_txt
\* the key lines of the file loaded, as (fingerprint, free text, aliases)
KeyLinesLoaded ==
    {w \in FileFprs \X FreeTexts \X AliasLists :
        KeyLine(w[1], w[2], w[3]) \in Range(fn_arg)}

\* the signer directory names and the fingerprints the verifier reports
\* (gpg reports upper case) that the lookups are made with
DirNames == {"alice", "Alice", "bob", "Bob", "alice a", "Alice A"}
GpgFprs == {"AA", "BB", ExampleFpr}

\* C18: the lookup in the loaded keys ignores the case of names and of
\* fingerprints: a signer directory whose name differs at most in case
\* from an alias of a key line, with a signature whose fingerprint
\* differs at most in case from the fingerprint of that line, is found as
\* bound.
C18_LookupIgnoresCase ==
    fn_pc = "load_keys_txt" =>
        \A w \in KeyLinesLoaded : \A i \in DOMAIN w[3] :
        \A d \in DirNames : \A f \in GpgFprs :
            (Lower(d) = Lower(w[3][i]) /\ Upper(f) = Upper(w[1])) =>
                ~not_in_keys([p_fingerprint |-> f, s_fingerprint |-> f], d, keys)

\* the pairs C19 states for a line: one per alias of a key line, none for
\* any other line
PairsStated(line) ==
    IF \E w \in FileFprs \X FreeTexts \X AliasLists :
            line = KeyLine(w[1], w[2], w[3])
    THEN LET w == CHOOSE x \in FileFprs \X FreeTexts \X AliasLists :
                     line = KeyLine(x[1], x[2], x[3])
         IN  [i \in DOMAIN w[3] |-> <<Upper(w[1]), Lower(w[3][i])>>]
    ELSE <<>>

RECURSIVE PairsStatedAll(_)
PairsStatedAll(lines) ==
    IF lines = <<>> THEN <<>>
    ELSE PairsStated(Head(lines)) \o PairsStatedAll(Tail(lines))

\* C19: load_keys_txt yields, for every line of the form
\* "<hex fingerprint> <free text> (<name1>, <name2>, ...)", one pair of the
\* fingerprint in upper case and the trimmed alias in lower case per
\* alias, and nothing for any other line; the line
\* "ABCDEF1234567890ABCDEF1234567890ABCDEF12 comment (Alice A, alice)"
\* yields the two entries "alice a" and "alice".
C19_OnePairPerAlias ==
    fn_pc = "load_keys_txt" =>
        /\ fn_ret = PairsStatedAll(fn_arg)
        /\ fn_arg = <<KeyLine(ExampleFpr, <<"comment">>, <<"Alice A", "alice">>)>> =>
              fn_ret = << <<ExampleFpr, "alice a">>, <<ExampleFpr, "alice">> >>

\* ------------------------------------------ claims on verify_detached
VerifyReturned == fn_pc = "verify_detached" /\ fn_error = None

\* C21: verify_detached classifies in a fixed order: a key missing from
\* the keyring gives MISSING_KEY, no primary fingerprint and the signing
\* fingerprint of the signature, also when the signature is flagged
\* expired or bad; otherwise an expired key gives EXPIRED_KEY, also when
\* the signature check failed; otherwise a failed check gives BAD.
C21_ClassificationPrecedence ==
    VerifyReturned =>
        /\ fn_arg.key_missing =>
              /\ fn_ret.error = ERR_MISSING_KEY
              /\ fn_ret.p_fingerprint = None
              /\ fn_ret.s_fingerprint = fn_arg.fpr /\ fn_arg.fpr # None
        /\ (~fn_arg.key_missing /\ fn_arg.key_expired) =>
              fn_ret.error = ERR_EXPIRED_KEY
        /\ (~fn_arg.key_missing /\ ~fn_arg.key_expired /\ fn_arg.bad) =>
              fn_ret.error = ERR_BAD

\* C21 witness: verify_detached returned MISSING_KEY for a signature by a
\* key missing from the keyring that is also flagged expired and bad
C21_Witness ==
    /\ VerifyReturned
    /\ fn_arg.key_missing /\ fn_arg.key_expired /\ fn_arg.bad
    /\ fn_ret.error = ERR_MISSING_KEY

=============================================================================
